---- MODULE Spec2Model ----
\* Model of the protover crate (src/rust/protover/lib.rs): the version-list
\* codec, the capability-string parsers, the query functions and the voting
\* function. Text is a sequence of one-character strings; every parser below
\* works on the characters, as the Rust code works on the bytes of a &str.
EXTENDS Integers, Sequences, FiniteSets, TLC

VARIABLES pc, op, args, ret

vars == <<pc, op, args, ret>>

-----------------------------------------------------------------------------
\* Bounds of the model.

\* Version numbers drawn for the codec round trip are 0..MaxVersion.
MaxVersion == 6

\* A capability text given to the list functions holds at most MaxEntries entries.
MaxEntries == 2

\* The reports of one vote hold at most MaxVoteEntries entries together.
MaxVoteEntries == 3

\* Pieces in one version list given to get_versions.
MaxPieces == 3

\* Strings in one Stringlist given to protover_compute_vote.
MaxStrings == 2

-----------------------------------------------------------------------------
\* Results: Result<T, &'static str>.

Ok(v) == [ok |-> TRUE, val |-> v]

Err(msg) == [ok |-> FALSE, err |-> msg]

\* let v = x; F(v): x is evaluated once and F applied to its value.
Bind(x, F(_)) == CHOOSE r \in {F(v) : v \in {x}} : TRUE

-----------------------------------------------------------------------------
\* Text primitives of the standard library, as used by the crate.

Digits == <<"0", "1", "2", "3", "4", "5", "6", "7", "8", "9">>

IsDigit(c) == \E i \in 1..10 : Digits[i] = c

DigitVal(c) == (CHOOSE i \in 1..10 : Digits[i] = c) - 1

\* char::is_whitespace, on the characters of the model's alphabet.
IsWhitespace(c) == c \in {" ", "\t", "\n"}

\* The characters of the model's alphabet in ascending byte order; str's Ord
\* compares byte by byte.
ByteOrder == <<"\t", "\n", " ", "+", ",", "-",
               "0", "1", "2", "3", "4", "5", "6", "7", "8", "9", "=",
               "A", "C", "D", "H", "I", "L", "M", "R", "S", "W",
               "a", "b", "c", "d", "e", "h", "i", "k", "l", "m", "n", "o",
               "r", "s", "t", "u", "y">>

Byte(c) == CHOOSE i \in 1..Len(ByteOrder) : ByteOrder[i] = c

\* a < b for two texts (lexicographic on bytes).
RECURSIVE StrLess(_, _)
StrLess(a0, b0) ==
  Bind(<<a0, b0>>, LAMBDA p :
    IF p[2] = <<>> THEN FALSE
    ELSE IF p[1] = <<>> THEN TRUE
    ELSE IF Head(p[1]) # Head(p[2]) THEN Byte(Head(p[1])) < Byte(Head(p[2]))
    ELSE StrLess(Tail(p[1]), Tail(p[2])))

\* str::contains(c) for a one-character pattern.
Contains(s0, c) == Bind(s0, LAMBDA s : \E i \in 1..Len(s) : s[i] = c)

\* Index of the first c in s at or after position from, or 0.
FirstAt(s0, c, from) ==
  Bind(s0, LAMBDA s :
    IF \E i \in from..Len(s) : s[i] = c
    THEN CHOOSE i \in from..Len(s) : s[i] = c /\ \A j \in from..(i - 1) : s[j] # c
    ELSE 0)

\* str::split(c): the pieces between the separators, empty pieces included;
\* the empty text splits into one empty piece.
RECURSIVE Split(_, _)
Split(s0, c) ==
  Bind(s0, LAMBDA s :
    Bind(FirstAt(s, c, 1), LAMBDA k :
      IF k = 0 THEN <<s>>
      ELSE <<SubSeq(s, 1, k - 1)>> \o Split(SubSeq(s, k + 1, Len(s)), c)))

\* str::splitn(2, c): at most two parts, cut at the first separator.
SplitN2(s0, c) ==
  Bind(s0, LAMBDA s :
    Bind(FirstAt(s, c, 1), LAMBDA k :
      IF k = 0 THEN <<s>>
      ELSE <<SubSeq(s, 1, k - 1), SubSeq(s, k + 1, Len(s))>>))

\* str::split_whitespace(): the maximal non-empty runs of non-whitespace.
RECURSIVE SplitWhitespace(_)
SplitWhitespace(s0) ==
  Bind(s0, LAMBDA s :
    IF s = <<>> THEN <<>>
    ELSE IF IsWhitespace(Head(s)) THEN SplitWhitespace(Tail(s))
    ELSE Bind(IF \E i \in 1..Len(s) : IsWhitespace(s[i])
              THEN CHOOSE i \in 1..Len(s) :
                     IsWhitespace(s[i]) /\ \A j \in 1..(i - 1) : ~IsWhitespace(s[j])
              ELSE Len(s) + 1,
              LAMBDA stop :
                <<SubSeq(s, 1, stop - 1)>> \o SplitWhitespace(SubSeq(s, stop, Len(s)))))

\* [T]::join(sep) for texts.
RECURSIVE Join(_, _)
Join(parts0, sep) ==
  Bind(parts0, LAMBDA parts :
    IF parts = <<>> THEN <<>>
    ELSE IF Len(parts) = 1 THEN parts[1]
    ELSE parts[1] \o sep \o Join(Tail(parts), sep))

\* Value of a digit string.
RECURSIVE DecimalValue(_)
DecimalValue(ds0) ==
  Bind(ds0, LAMBDA ds :
    IF ds = <<>> THEN 0
    ELSE 10 * DecimalValue(SubSeq(ds, 1, Len(ds) - 1)) + DigitVal(ds[Len(ds)]))

\* u32::from_str / u32::from_str_radix(_, 10): an optional '+', then one or
\* more decimal digits. Texts of the model have at most nine digits, so the
\* value always fits the 32 bits and the overflow error is not reachable.
parse_u32(s0) ==
  Bind(s0, LAMBDA s :
    Bind(IF s # <<>> /\ Head(s) = "+" THEN Tail(s) ELSE s, LAMBDA ds :
      IF ds = <<>> \/ Len(ds) > 9 \/ \E i \in 1..Len(ds) : ~IsDigit(ds[i])
      THEN Err("invalid digit")
      ELSE Ok(DecimalValue(ds))))

\* u32::to_string.
RECURSIVE to_string(_)
to_string(n0) ==
  Bind(n0, LAMBDA n :
    IF n < 10 THEN <<Digits[n + 1]>>
    ELSE to_string(n \div 10) \o <<Digits[(n % 10) + 1]>>)

\* Vec::dedup: removes consecutive repeated elements only. Computed by
\* halves: the two halves are dedup'ed and joined, dropping the head of the
\* right half when it repeats the last element of the left half.
RECURSIVE Dedup(_)
Dedup(v0) ==
  Bind(v0, LAMBDA v :
    IF Len(v) <= 1 THEN v
    ELSE Bind(<<Dedup(SubSeq(v, 1, Len(v) \div 2)),
                Dedup(SubSeq(v, (Len(v) \div 2) + 1, Len(v)))>>,
              LAMBDA lr :
                IF lr[1][Len(lr[1])] = lr[2][1] THEN lr[1] \o Tail(lr[2])
                ELSE lr[1] \o lr[2]))

\* Vec<u32>::sort: ascending, repeated elements kept.
RECURSIVE SortU32(_)
SortU32(v0) ==
  Bind(v0, LAMBDA v :
    IF Len(v) <= 1 THEN v
    ELSE Bind(v[(Len(v) + 1) \div 2], LAMBDA pivot :
           SortU32(SelectSeq(v, LAMBDA x : x < pivot))
             \o SelectSeq(v, LAMBDA x : x = pivot)
             \o SortU32(SelectSeq(v, LAMBDA x : x > pivot))))

Reverse(v0) == Bind(v0, LAMBDA v : [i \in 1..Len(v) |-> v[Len(v) + 1 - i]])

Range(v0) == Bind(v0, LAMBDA v : {v[i] : i \in 1..Len(v)})

-----------------------------------------------------------------------------
\* The version-list codec.

MAX_PROTOCOLS_TO_EXPAND == 500

\* expand_version_range with the upper bound left out of the range (lower..higher).
expand_version_range_exclusive(range) ==
  IF range = <<>> THEN Err("version string empty")
  ELSE Bind(Split(range, "-"), LAMBDA parts :
         Bind(parse_u32(parts[1]), LAMBDA lower :
           IF ~lower.ok THEN Err("cannot parse protocol range lower bound")
           ELSE IF Len(parts) < 2 THEN Err("cannot parse protocol range upper bound")
           ELSE Bind(parse_u32(parts[2]), LAMBDA higher :
                  IF ~higher.ok THEN Err("cannot parse protocol range upper bound")
                  ELSE Ok([i \in 1..(higher.val - lower.val) |-> lower.val + i - 1]))))

\* expand_version_range: the first two '-'-separated parts are the bounds; any
\* further part is never looked at. lower...higher is empty when lower > higher.
expand_version_range(range) ==
  IF range = <<>> THEN Err("version string empty")
  ELSE Bind(Split(range, "-"), LAMBDA parts :
         Bind(parse_u32(parts[1]), LAMBDA lower :
           IF ~lower.ok THEN Err("cannot parse protocol range lower bound")
           ELSE IF Len(parts) < 2 THEN Err("cannot parse protocol range upper bound")
           ELSE Bind(parse_u32(parts[2]), LAMBDA higher :
                  IF ~higher.ok THEN Err("cannot parse protocol range upper bound")
                  ELSE Ok([i \in 1..(higher.val - lower.val + 1) |-> lower.val + i - 1]))))

\* The piece of a version list as the vector it stands for: a range expanded,
\* a number alone.
piece_versions(piece) ==
  IF Contains(piece, "-") THEN expand_version_range(piece)
  ELSE Bind(parse_u32(piece), LAMBDA n :
         IF n.ok THEN Ok(<<n.val>>) ELSE Err("invalid protocol entry"))

\* The body of the loop of get_versions for one piece: every expanded value is
\* inserted at index 0, then the vector is dedup'ed and its length checked.
get_versions_piece(piece, versions) ==
  Bind(piece_versions(piece), LAMBDA r :
    IF ~r.ok THEN r
    ELSE Bind(Dedup(Reverse(r.val) \o versions), LAMBDA v :
           IF Len(v) > MAX_PROTOCOLS_TO_EXPAND
           THEN Err("Too many versions to expand")
           ELSE Ok(v)))

RECURSIVE get_versions_loop(_, _)
get_versions_loop(pieces0, versions0) ==
  Bind(<<pieces0, versions0>>, LAMBDA a :
    IF a[1] = <<>> THEN Ok(SortU32(a[2]))
    ELSE Bind(get_versions_piece(Head(a[1]), a[2]), LAMBDA r :
           IF ~r.ok THEN r ELSE get_versions_loop(Tail(a[1]), r.val)))

get_versions(version_string) ==
  IF version_string = <<>> THEN Err("version string is empty")
  ELSE get_versions_loop(Split(version_string, ","), <<>>)

\* find_range: <<has_range, range_end>> for the run starting at the head. The
\* loop stops at the first k whose successor is not list[k] + 1; it is stated
\* on positions so that a run of hundreds of versions costs no recursion.
find_range(list0) ==
  Bind(list0, LAMBDA list :
    IF Len(list) = 0 THEN <<FALSE, 0>>
    ELSE Bind(CHOOSE k \in 1..Len(list) :
                /\ \A j \in 2..k : list[j] = list[j - 1] + 1
                /\ (k = Len(list) \/ list[k + 1] # list[k] + 1),
              LAMBDA k : <<k > 1, list[k]>>))

\* The members of S, all within lo..hi, in ascending order.
RECURSIVE SortedBetween(_, _, _)
SortedBetween(S0, lo0, hi0) ==
  Bind(<<S0, lo0, hi0>>, LAMBDA a :
    IF a[1] = {} THEN <<>>
    ELSE IF a[2] = a[3] THEN <<a[2]>>
    ELSE Bind((a[2] + a[3]) \div 2, LAMBDA mid :
           SortedBetween({x \in a[1] : x <= mid}, a[2], mid)
             \o SortedBetween({x \in a[1] : x > mid}, mid + 1, a[3])))

\* The ascending vector of a HashSet<u32> (drain, collect, sort).
SortedOfSet(S0) ==
  Bind(S0, LAMBDA S :
    IF S = {} THEN <<>>
    ELSE SortedBetween(S, CHOOSE x \in S : \A y \in S : x <= y,
                          CHOOSE x \in S : \A y \in S : x >= y))

RECURSIVE contract_loop(_, _)
contract_loop(supported0, final_output0) ==
  Bind(<<supported0, final_output0>>, LAMBDA a :
    IF Len(a[1]) = 0 THEN a[2]
    ELSE Bind(find_range(a[1]), LAMBDA fr :
           IF fr[1]
           THEN contract_loop(SelectSeq(Tail(a[1]), LAMBDA x : x > fr[2]),
                              Append(a[2], to_string(Head(a[1])) \o <<"-">>
                                             \o to_string(fr[2])))
           ELSE contract_loop(Tail(a[1]), Append(a[2], to_string(Head(a[1]))))))

contract_protocol_list(supported_hash) ==
  Join(contract_loop(SortedOfSet(supported_hash), <<>>), <<",">>)

-----------------------------------------------------------------------------
\* Protocol names and the table of supported protocols.

\* A text literal as a sequence of characters.
Chars(s) == [i \in 1..Len(s) |-> SubSeq(s, i, i)]

\* enum Proto; Display prints the variant's name.
Proto == {"Cons", "Desc", "DirCache", "HSDir", "HSIntro", "HSRend", "Link",
          "LinkAuth", "Microdesc", "Relay"}

\* impl FromStr for Proto: an exact, case-sensitive match of the whole text.
Proto_from_str(s0) ==
  Bind(s0, LAMBDA s :
    IF \E p \in Proto : Chars(p) = s
    THEN Ok(CHOOSE p \in Proto : Chars(p) = s)
    ELSE Err("Not a valid protocol type"))

SUPPORTED_PROTOCOLS ==
  <<Chars("Cons=1-2"), Chars("Desc=1-2"), Chars("DirCache=1-2"), Chars("HSDir=1-2"),
    Chars("HSIntro=3-4"), Chars("HSRend=1-2"), Chars("Link=1-4"), Chars("LinkAuth=1,3"),
    Chars("Microdesc=1-2"), Chars("Relay=1-2")>>

\* HashMap::insert: a later value for a key replaces the earlier one.
MapInsert(m0, k0, v0) ==
  Bind(<<m0, k0, v0>>, LAMBDA a :
    [x \in (DOMAIN a[1]) \cup {a[2]} |-> IF x = a[2] THEN a[3] ELSE a[1][x]])

EmptyMap == [x \in {} |-> <<>>]

-----------------------------------------------------------------------------
\* The strict parser and the queries.

\* get_proto_and_vers: the versions are parsed before the name is resolved.
get_proto_and_vers(str_p) ==
  Bind(SplitN2(str_p, "="), LAMBDA parts :
    IF Len(parts) < 2 THEN Err("invalid protover entry")
    ELSE Bind(get_versions(parts[2]), LAMBDA versions :
           IF ~versions.ok THEN versions
           ELSE Bind(Proto_from_str(parts[1]), LAMBDA proto_name :
                  IF ~proto_name.ok THEN proto_name
                  ELSE Ok(<<proto_name.val, versions.val>>))))

RECURSIVE parse_protocols_loop(_, _)
parse_protocols_loop(protocols0, parsed0) ==
  Bind(<<protocols0, parsed0>>, LAMBDA a :
    IF a[1] = <<>> THEN Ok(a[2])
    ELSE Bind(get_proto_and_vers(Head(a[1])), LAMBDA r :
           IF ~r.ok THEN r
           ELSE parse_protocols_loop(Tail(a[1]), MapInsert(a[2], r.val[1], r.val[2]))))

parse_protocols(protocols) == parse_protocols_loop(protocols, EmptyMap)

\* parse_protocols_from_string: the text is split on the single character ' '.
parse_protocols_from_string(protocol_string) ==
  parse_protocols(Split(protocol_string, " "))

tor_supported == parse_protocols(SUPPORTED_PROTOCOLS)

\* contains_only_ssupported_protocols. currently_supported[&name] panics for a
\* missing key; here the application of the function outside its domain is an
\* evaluation error, and none occurs because the table names every Proto.
contains_only_ssupported_protocols(str_v) ==
  Bind(get_proto_and_vers(str_v), LAMBDA r :
    IF ~r.ok THEN FALSE
    ELSE Bind(tor_supported, LAMBDA currently_supported :
           IF ~currently_supported.ok THEN FALSE
           ELSE Bind(Range(currently_supported.val[r.val[1]]), LAMBDA supported :
                  SelectSeq(r.val[2], LAMBDA x : x \notin supported) = <<>>)))

\* all_supported splitting on the single character ' ', as
\* parse_protocols_from_string does.
all_supported_split_on_space(protocols) ==
  Bind(SelectSeq(Split(protocols, " "),
                 LAMBDA v : ~contains_only_ssupported_protocols(v)),
       LAMBDA unsupported : <<unsupported = <<>>, Join(unsupported, <<" ">>)>>)

\* all_supported: <<is_supported, unsupported>>.
all_supported(protocols) ==
  Bind(SelectSeq(SplitWhitespace(protocols),
                 LAMBDA v : ~contains_only_ssupported_protocols(v)),
       LAMBDA unsupported : <<unsupported = <<>>, Join(unsupported, <<" ">>)>>)

\* The outcome of a call that can panic.
Returned(v) == [kind |-> "return", val |-> v]

Panicked == [kind |-> "panic"]

\* protover_string_supports_protocol: supported[&proto] is HashMap's Index,
\* which panics when the key is absent.
protover_string_supports_protocol(list, proto, vers) ==
  Bind(parse_protocols_from_string(list), LAMBDA supported :
    IF ~supported.ok THEN Returned(FALSE)
    ELSE IF proto \notin DOMAIN supported.val THEN Panicked
    ELSE Returned(vers \in Range(supported.val[proto])))

-----------------------------------------------------------------------------
\* Voting.

\* A usize of 64 bits as four 16-bit limbs, most significant first.
usize_of_nat(n) == <<0, 0, n \div 65536, n % 65536>>

\* threshold as usize: an i32 is sign-extended, so a negative threshold t
\* becomes 2^64 + t, the complement of -(t + 1).
as_usize(t) ==
  IF t >= 0 THEN usize_of_nat(t)
  ELSE [i \in 1..4 |-> 65535 - usize_of_nat(-(t + 1))[i]]

\* a >= b on usize.
usize_ge(a, b) ==
  \/ a = b
  \/ \E i \in 1..4 : a[i] > b[i] /\ \A j \in 1..(i - 1) : a[j] = b[j]

RECURSIVE Flatten(_)
Flatten(ss0) ==
  Bind(ss0, LAMBDA ss : IF ss = <<>> THEN <<>> ELSE Head(ss) \o Flatten(Tail(ss)))

\* parse_protocols_with_duplicates: an entry without '=' or with a rejected
\* version list is skipped; the versions of a name accumulate in one vector.
RECURSIVE parse_with_duplicates_loop(_, _)
parse_with_duplicates_loop(unified0, uniques0) ==
  Bind(<<unified0, uniques0>>, LAMBDA a :
    IF a[1] = <<>> THEN Ok(a[2])
    ELSE Bind(SplitN2(Head(a[1]), "="), LAMBDA parts :
           IF Len(parts) < 2 THEN parse_with_duplicates_loop(Tail(a[1]), a[2])
           ELSE Bind(get_versions(parts[2]), LAMBDA vers :
                  IF ~vers.ok THEN parse_with_duplicates_loop(Tail(a[1]), a[2])
                  ELSE IF parts[1] \in DOMAIN a[2]
                  THEN parse_with_duplicates_loop(
                         Tail(a[1]), MapInsert(a[2], parts[1], a[2][parts[1]] \o vers.val))
                  ELSE parse_with_duplicates_loop(
                         Tail(a[1]), MapInsert(a[2], parts[1], vers.val)))))

parse_protocols_with_duplicates(protocols0) ==
  Bind(protocols0, LAMBDA protocols :
    parse_with_duplicates_loop(
      Flatten([i \in 1..Len(protocols) |-> SplitWhitespace(protocols[i])]), EmptyMap))

\* The versions of one protocol that meet the threshold.
meets_threshold(versions0, threshold) ==
  Bind(<<versions0, as_usize(threshold)>>, LAMBDA a :
    {v \in Range(a[1]) :
       usize_ge(usize_of_nat(Cardinality({i \in 1..Len(a[1]) : a[1][i] = v})), a[2])})

\* Vec<&String>::sort on the keys.
RECURSIVE InsertKey(_, _)
InsertKey(k0, ks0) ==
  Bind(<<k0, ks0>>, LAMBDA a :
    IF a[2] = <<>> THEN <<a[1]>>
    ELSE IF ~StrLess(Head(a[2]), a[1]) THEN <<a[1]>> \o a[2]
    ELSE <<Head(a[2])>> \o InsertKey(a[1], Tail(a[2])))

RECURSIVE SortKeys(_)
SortKeys(ks0) ==
  Bind(ks0, LAMBDA ks :
    IF ks = <<>> THEN <<>> ELSE InsertKey(Head(ks), SortKeys(Tail(ks))))

\* The keys of a HashMap in the order its iterator yields them: hash_order is
\* the order the hasher puts all possible keys in, which no caller controls.
HashIter(m0, hash_order) ==
  Bind(DOMAIN m0, LAMBDA keys : SelectSeq(hash_order, LAMBDA k : k \in keys))

\* write_vote_to_string without keys.sort().
write_vote_to_string_unsorted(vote, hash_order) ==
  Bind(HashIter(vote, hash_order), LAMBDA keys :
    Join([i \in 1..Len(keys) |-> keys[i] \o <<"=">> \o vote[keys[i]]], <<" ">>))

write_vote_to_string(vote, hash_order) ==
  Bind(SortKeys(HashIter(vote, hash_order)), LAMBDA keys :
    Join([i \in 1..Len(keys) |-> keys[i] \o <<"=">> \o vote[keys[i]]], <<" ">>))

\* The loop of compute_vote over the parsed protocols: the contracted list
\* of each name, the names with an empty list left out.
vote_final_output(protocols, threshold) ==
  Bind([p \in DOMAIN protocols |->
          contract_protocol_list(meets_threshold(protocols[p], threshold))],
       LAMBDA contracted :
         [p \in {q \in DOMAIN contracted : contracted[q] # <<>>} |-> contracted[p]])

compute_vote(protos, threshold, hash_order) ==
  IF protos = <<>> THEN <<>>
  ELSE Bind(parse_protocols_with_duplicates(protos), LAMBDA parsed :
         IF ~parsed.ok THEN <<>>
         ELSE Bind(vote_final_output(parsed.val, threshold), LAMBDA final_output :
                write_vote_to_string(final_output, hash_order)))

-----------------------------------------------------------------------------
\* The C boundary (ffi.rs, smartlist.rs).

\* A C string is a sequence of bytes. An ASCII byte is written as its
\* character; InvalidByte is the byte 0xFF, which no UTF-8 text contains.
InvalidByte == "0xFF"

\* A *const c_char: null, or the address of a NUL-terminated byte sequence.
NullPtr == [null |-> TRUE, bytes |-> <<>>]

CPtr(bytes) == [null |-> FALSE, bytes |-> bytes]

\* CStr::to_str: the text of the bytes when they are valid UTF-8, else an
\* error.
to_str(bytes0) ==
  Bind(bytes0, LAMBDA bytes :
    IF \E i \in 1..Len(bytes) : bytes[i] = InvalidByte
    THEN Err("Utf8Error")
    ELSE Ok(bytes))

\* A panic inside an extern "C" function has no defined behaviour: the build
\* either aborts the process or unwinds into the C caller's frames. In
\* neither case does the caller receive a value.
Aborted == [kind |-> "abort"]

UnwoundIntoC == [kind |-> "unwind"]

PanicOutcomes == {Aborted, UnwoundIntoC}

\* translate_to_rust: the C enum's integer to the Proto variant.
translate_to_rust(c_proto) ==
  IF c_proto \in 0..9
  THEN Ok(<<"Link", "LinkAuth", "Relay", "DirCache", "HSDir", "HSIntro", "HSRend",
            "Desc", "Microdesc", "Cons">>[c_proto + 1])
  ELSE Err("Invalid protocol type")

\* protover_all_supported: the returned c_int and what is stored through
\* missing_out (Unset when nothing is stored).
Unset == [set |-> FALSE, bytes |-> <<>>]

Stored(bytes) == [set |-> TRUE, bytes |-> bytes]

protover_all_supported(c_relay_version, missing_out_is_null) ==
  IF c_relay_version.null \/ missing_out_is_null
  THEN Returned([status |-> 1, missing_out |-> Unset])
  ELSE Bind(to_str(c_relay_version.bytes), LAMBDA relay_version :
         IF ~relay_version.ok THEN Returned([status |-> 1, missing_out |-> Unset])
         ELSE Bind(all_supported(relay_version.val), LAMBDA r :
                IF r[1] = FALSE
                THEN Returned([status |-> 0, missing_out |-> Stored(r[2])])
                ELSE Returned([status |-> 1, missing_out |-> Unset])))

\* protocol_list_supports_protocol: the set of outcomes of the call; a panic
\* of protover_string_supports_protocol crosses the boundary.
protocol_list_supports_protocol(c_protocol_list, c_protocol, version) ==
  IF c_protocol_list.null THEN {Returned(1)}
  ELSE Bind(to_str(c_protocol_list.bytes), LAMBDA protocol_list :
         IF ~protocol_list.ok THEN {Returned(1)}
         ELSE Bind(translate_to_rust(c_protocol), LAMBDA protocol :
                IF ~protocol.ok THEN {Returned(0)}
                ELSE Bind(protover_string_supports_protocol(
                            protocol_list.val, protocol.val, version),
                          LAMBDA is_supported :
                            IF is_supported = Panicked THEN PanicOutcomes
                            ELSE {Returned(IF is_supported.val THEN 1 ELSE 0)})))

\* Stringlist::get_list: the first num_used strings of the list as texts;
\* panics at the first string that is not valid UTF-8.
get_list(self) ==
  Bind(SubSeq(self.list, 1, self.num_used), LAMBDA elems :
    IF \E i \in 1..Len(elems) : ~to_str(elems[i].bytes).ok
    THEN Panicked
    ELSE Returned([i \in 1..Len(elems) |-> to_str(elems[i].bytes).val]))

\* protover_compute_vote: the set of outcomes of the call; list is null or a
\* Stringlist.
protover_compute_vote(list, threshold, hash_order) ==
  IF list.null THEN {Returned(<<>>)}
  ELSE Bind(get_list(list.target), LAMBDA data :
         IF data = Panicked THEN PanicOutcomes
         ELSE {Returned(compute_vote(data.val, threshold, hash_order))})

-----------------------------------------------------------------------------
\* The inputs of the calls.

\* Entries given to the queries: well-formed and supported, well-formed and
\* not supported, an unknown name, and the malformed shapes.
QueryEntries ==
  {Chars("Cons=1"), Chars("Link=1"), Chars("Link=3,5-6"), Chars("Wombat=9"),
   Chars("Cons="), Chars("Cons=1-"), Chars("Cons=1-2-9"), Chars("Cons")}

\* Whitespace between two entries of a text, and around the text.
Separators == {<<" ">>, <<" ", " ">>, <<"\t">>}

Pads == {<<>>, <<" ">>}

\* The texts of exactly k entries.
RECURSIVE TextsOf(_)
TextsOf(k) ==
  IF k = 0 THEN {<<>>}
  ELSE IF k = 1 THEN QueryEntries
  ELSE {t \o sep \o e : t \in TextsOf(k - 1), sep \in Separators, e \in QueryEntries}

QueryTexts ==
  {l \o t \o r : l \in Pads, t \in UNION {TextsOf(k) : k \in 0..MaxEntries}, r \in Pads}

QueryProtos == {"Link", "Cons"}

QueryVersions == {1, 3}

\* Entries reported to a vote.
VoteEntries ==
  {Chars("Link=1-2"), Chars("Link=2"), Chars("Cons=1"), Chars("Link=1,2,1"),
   Chars("Link=1-2-3"), Chars("Link=1-"), Chars("Link")}

\* Further votes: an empty version list, a range of more than
\* MAX_PROTOCOLS_TO_EXPAND versions alone and next to valid entries, and
\* entries of one name that list more than MAX_PROTOCOLS_TO_EXPAND versions
\* between them.
ExtraVoteInputs ==
  {<<Chars("Link=")>>, <<Chars("Link= Link=2")>>, <<Chars("Cons=1"), Chars("Link=")>>,
   <<Chars("Link=1-501")>>, <<Chars("Link=1-501 Link=2")>>,
   <<Chars("Cons=1"), Chars("Link=1-501")>>,
   <<Chars("Link=1-500")>>, <<Chars("Link=1-500"), Chars("Link=501")>>,
   <<Chars("Link=1-500 Link=501"), Chars("Cons=1")>>}

\* The reports made of the entries es, a new report starting after entry i
\* where cuts[i] holds, the entries of one report joined by one space.
RECURSIVE Reports(_, _)
Reports(es, cuts) ==
  IF Len(es) = 0 THEN <<>>
  ELSE IF Len(es) = 1 THEN <<es[1]>>
  ELSE Bind(Reports(Tail(es), Tail(cuts)), LAMBDA rest :
         IF cuts[1] THEN <<es[1]>> \o rest
         ELSE <<es[1] \o <<" ">> \o rest[1]>> \o Tail(rest))

\* No report, one empty report, and every way to cut up to MaxVoteEntries
\* entries into reports.
VoteInputs ==
  {<<>>, <<<<>>>>} \cup ExtraVoteInputs \cup
  UNION {{Reports(es, cuts) : es \in [1..k -> VoteEntries], cuts \in [1..k -> BOOLEAN]}
         : k \in 1..MaxVoteEntries}

MinI32 == -2147483647 - 1

Thresholds == {MinI32, -1, 0, 1, 2}

\* The names a vote can hold, and the orders a hasher can put them in.
VoteNames == {Chars("Link"), Chars("Cons")}

HashOrders ==
  {h \in [1..Cardinality(VoteNames) -> VoteNames] : Range(h) = VoteNames}

\* Pieces of the version lists given to get_versions: numbers, ranges, ranges
\* of exactly MAX_PROTOCOLS_TO_EXPAND versions, and malformed pieces.
VersionPieces ==
  {Chars("1"), Chars("2"), Chars("1-2"), Chars("1-2-3"), Chars("1-"), Chars("a"), <<>>,
   Chars("1-") \o to_string(MAX_PROTOCOLS_TO_EXPAND),
   Chars("2-") \o to_string(MAX_PROTOCOLS_TO_EXPAND + 1)}

\* The version lists of one to MaxPieces pieces.
VersionLists ==
  UNION {{Join(ps, <<",">>) : ps \in [1..k -> VersionPieces]} : k \in 1..MaxPieces}

\* Texts given to expand_version_range.
RangeTexts ==
  {<<>>, Chars("1-2"), Chars("1-4"), Chars("2-1"), Chars("a"), Chars("1-a"), Chars("a-1"),
   Chars("1-"), Chars("-1"), Chars("-"), Chars("1-2-3"), Chars("1-2-a"), Chars("1--2"),
   Chars("1-") \o to_string(MAX_PROTOCOLS_TO_EXPAND + 1)}

\* Byte strings handed over the C boundary: valid texts, and byte sequences
\* that are not valid UTF-8.
ValidCStrings ==
  {<<>>, Chars("Cons=1"), Chars("Link=1"), Chars("Wombat=9"), Chars("Cons=1 Link=1"),
   Chars("Cons=1-")}

InvalidCStrings ==
  {<<InvalidByte>>, Chars("Cons=1") \o <<InvalidByte>>,
   Chars("Cons=1 Wombat=") \o <<InvalidByte>>}

CStrings == ValidCStrings \cup InvalidCStrings

CStringPtrs == {NullPtr} \cup {CPtr(b) : b \in CStrings}

\* The C enum values given for a protocol: Link, Cons, and one out of range.
CProtocols == {0, 9, 10}

\* Stringlists of up to MaxStrings strings, and the null list.
Stringlists ==
  {[null |-> TRUE, target |-> [list |-> <<>>, num_used |-> 0]]} \cup
  UNION {{[null |-> FALSE, target |-> [list |-> l, num_used |-> k]]
            : l \in [1..k -> {CPtr(b) : b \in CStrings \ {<<>>}}]} : k \in 0..MaxStrings}

-----------------------------------------------------------------------------
\* The calls of the model: each behaviour is one call of one function of the
\* crate on inputs drawn from bounded sets.

Init == pc = "idle" /\ op = "none" /\ args = <<>> /\ ret = <<>>

\* contract_protocol_list on a set of versions, and get_versions on its output.
CallRoundTrip ==
  /\ pc = "idle"
  /\ \E S \in SUBSET (0..MaxVersion) :
       /\ op' = "round_trip"
       /\ args' = [set |-> S]
       /\ ret' = [text |-> contract_protocol_list(S),
                  parsed |-> get_versions(contract_protocol_list(S))]
  /\ pc' = "done"

CallContainsOnly ==
  /\ pc = "idle"
  /\ \E e \in QueryEntries \cup {<<>>, Chars("Cons=2-1"), Chars("LinkAuth=1,3")} :
       /\ op' = "contains_only_ssupported_protocols"
       /\ args' = [entry |-> e]
       /\ ret' = contains_only_ssupported_protocols(e)
  /\ pc' = "done"

CallAllSupported ==
  /\ pc = "idle"
  /\ \E text \in QueryTexts :
       /\ op' = "all_supported"
       /\ args' = [text |-> text]
       /\ ret' = all_supported(text)
  /\ pc' = "done"

CallStringSupportsProtocol ==
  /\ pc = "idle"
  /\ \E list \in QueryTexts, proto \in QueryProtos, vers \in QueryVersions :
       /\ op' = "protover_string_supports_protocol"
       /\ args' = [list |-> list, proto |-> proto, vers |-> vers]
       /\ ret' = protover_string_supports_protocol(list, proto, vers)
  /\ pc' = "done"

CallComputeVote ==
  /\ pc = "idle"
  /\ \E protos \in VoteInputs, threshold \in Thresholds, hash_order \in HashOrders :
       /\ op' = "compute_vote"
       /\ args' = [protos |-> protos, threshold |-> threshold]
       /\ ret' = compute_vote(protos, threshold, hash_order)
  /\ pc' = "done"

CallGetVersions ==
  /\ pc = "idle"
  /\ \E version_string \in VersionLists :
       /\ op' = "get_versions"
       /\ args' = [version_string |-> version_string]
       /\ ret' = get_versions(version_string)
  /\ pc' = "done"

CallExpandVersionRange ==
  /\ pc = "idle"
  /\ \E range \in RangeTexts :
       /\ op' = "expand_version_range"
       /\ args' = [range |-> range]
       /\ ret' = expand_version_range(range)
  /\ pc' = "done"

CallFfiAllSupported ==
  /\ pc = "idle"
  /\ \E c_relay_version \in CStringPtrs, missing_out_is_null \in BOOLEAN :
       /\ op' = "protover_all_supported"
       /\ args' = [c_relay_version |-> c_relay_version,
                   missing_out_is_null |-> missing_out_is_null]
       /\ ret' = protover_all_supported(c_relay_version, missing_out_is_null)
  /\ pc' = "done"

CallFfiSupportsProtocol ==
  /\ pc = "idle"
  /\ \E c_protocol_list \in CStringPtrs, c_protocol \in CProtocols,
        version \in QueryVersions :
       /\ op' = "protocol_list_supports_protocol"
       /\ args' = [c_protocol_list |-> c_protocol_list, c_protocol |-> c_protocol,
                   version |-> version]
       /\ ret' \in protocol_list_supports_protocol(c_protocol_list, c_protocol, version)
  /\ pc' = "done"

CallFfiComputeVote ==
  /\ pc = "idle"
  /\ \E list \in Stringlists, threshold \in {1, 2}, hash_order \in HashOrders :
       /\ op' = "protover_compute_vote"
       /\ args' = [list |-> list, threshold |-> threshold]
       /\ ret' \in protover_compute_vote(list, threshold, hash_order)
  /\ pc' = "done"

Next ==
  \/ CallRoundTrip
  \/ CallContainsOnly
  \/ CallAllSupported
  \/ CallStringSupportsProtocol
  \/ CallComputeVote
  \/ CallGetVersions
  \/ CallExpandVersionRange
  \/ CallFfiAllSupported
  \/ CallFfiSupportsProtocol
  \/ CallFfiComputeVote

Spec == Init /\ [][Next]_vars

-----------------------------------------------------------------------------
\* The wire grammar, stated on positions of the text rather than by scanning:
\*   capability-list := entry (WS+ entry)*     entry := name "=" versionlist
\*   versionlist := piece ("," piece)*         piece := INT | INT "-" INT

IsInt(s) == s # <<>> /\ \A i \in 1..Len(s) : IsDigit(s[i])

\* The entries of a text: its maximal runs of non-whitespace, in order.
TokenStarts(s) ==
  {i \in 1..Len(s) : ~IsWhitespace(s[i]) /\ (i = 1 \/ IsWhitespace(s[i - 1]))}

TokenEnd(s, i) ==
  CHOOSE j \in i..Len(s) :
    /\ \A k \in i..j : ~IsWhitespace(s[k])
    /\ (j = Len(s) \/ IsWhitespace(s[j + 1]))

Tokens(s) ==
  [n \in 1..Cardinality(TokenStarts(s)) |->
     LET i == CHOOSE x \in TokenStarts(s) :
                Cardinality({y \in TokenStarts(s) : y <= x}) = n
     IN SubSeq(s, i, TokenEnd(s, i))]

\* s holds no whitespace but one ' ' between two entries.
SingleSpaced(s) ==
  \A i \in 1..Len(s) :
    IsWhitespace(s[i]) =>
      /\ s[i] = " "
      /\ 1 < i /\ i < Len(s)
      /\ ~IsWhitespace(s[i - 1]) /\ ~IsWhitespace(s[i + 1])

\* The pieces of a version list: the segments between its commas.
Pieces(s) ==
  LET cuts == {0, Len(s) + 1} \cup {i \in 1..Len(s) : s[i] = ","}
  IN {SubSeq(s, ab[1] + 1, ab[2] - 1) :
        ab \in {x \in cuts \X cuts :
                  x[1] < x[2] /\ \A c \in cuts : ~(x[1] < c /\ c < x[2])}}

IsRange(p) ==
  \E k \in 1..Len(p) :
    p[k] = "-" /\ IsInt(SubSeq(p, 1, k - 1)) /\ IsInt(SubSeq(p, k + 1, Len(p)))

WfPiece(p) == IsInt(p) \/ IsRange(p)

PieceSet(p) ==
  IF IsInt(p) THEN {DecimalValue(p)}
  ELSE LET k == CHOOSE i \in 1..Len(p) : p[i] = "-"
       IN DecimalValue(SubSeq(p, 1, k - 1))..DecimalValue(SubSeq(p, k + 1, Len(p)))

\* The versions a well-formed version list denotes.
VersionsOf(s) == UNION {PieceSet(p) : p \in Pieces(s)}

WfVersions(s) ==
  /\ s # <<>>
  /\ \A p \in Pieces(s) : WfPiece(p)
  /\ Cardinality(VersionsOf(s)) <= MAX_PROTOCOLS_TO_EXPAND

EqPos(e) == FirstAt(e, "=", 1)

NameOf(e) == SubSeq(e, 1, EqPos(e) - 1)

ListOf(e) == SubSeq(e, EqPos(e) + 1, Len(e))

\* An entry a vote can count: any name, a well-formed version list.
WfEntry(e) == EqPos(e) > 0 /\ WfVersions(ListOf(e))

\* An entry the strict parser accepts: the name is one of Proto.
StrictEntry(e) == WfEntry(e) /\ \E p \in Proto : Chars(p) = NameOf(e)

EntryVersions(e) == IF WfEntry(e) THEN VersionsOf(ListOf(e)) ELSE {}

\* The versions the table of this build lists for a protocol name.
SupportedVersions(name) ==
  UNION {EntryVersions(SUPPORTED_PROTOCOLS[i]) :
           i \in {j \in 1..Len(SUPPORTED_PROTOCOLS) : NameOf(SUPPORTED_PROTOCOLS[j]) = name}}

\* The versions a vote text lists under a name.
ListedVersions(text, name) ==
  UNION {EntryVersions(Tokens(text)[i]) :
           i \in {j \in 1..Len(Tokens(text)) :
                    EqPos(Tokens(text)[j]) > 0 /\ NameOf(Tokens(text)[j]) = name}}

\* The names with an '=' in a text.
NamesIn(text) ==
  {NameOf(Tokens(text)[j]) : j \in {i \in 1..Len(Tokens(text)) : EqPos(Tokens(text)[i]) > 0}}

\* The (report, entry) positions of a vote's input that list version v under name.
Occurrences(protos, name, v) ==
  {ij \in UNION {{<<i, j>> : j \in 1..Len(Tokens(protos[i]))} : i \in 1..Len(protos)} :
     LET e == Tokens(protos[ij[1]])[ij[2]]
     IN EqPos(e) > 0 /\ NameOf(e) = name /\ v \in EntryVersions(e)}

\* What each input string of a vote lists, an entry read as
\* parse_protocols_with_duplicates reads it: the triples <<i, name, versions>>
\* for the entries of string i that have an '=' and an accepted version list.
Readings(protos) ==
  UNION {{<<ij[1], NameOf(Tokens(protos[ij[1]])[ij[2]]), Range(vers.val)>> :
            vers \in {r \in {get_versions(ListOf(Tokens(protos[ij[1]])[ij[2]]))} : r.ok}}
           : ij \in {x \in (1..Len(protos)) \X (1..MaxVoteEntries + 1) :
                       /\ x[2] <= Len(Tokens(protos[x[1]]))
                       /\ EqPos(Tokens(protos[x[1]])[x[2]]) > 0}}

\* The input strings that list version v under name, given the readings of
\* the input.
Voters(readings, name, v) ==
  {r[1] : r \in {x \in readings : x[2] = name /\ v \in x[3]}}

\* The versions the output of a vote lists under a name: the output is read
\* by the grammar of its pieces alone, whatever their number.
VotedVersions(out, name) ==
  UNION {VersionsOf(ListOf(Tokens(out)[i])) :
           i \in {j \in 1..Len(Tokens(out)) :
                    /\ EqPos(Tokens(out)[j]) > 0
                    /\ NameOf(Tokens(out)[j]) = name
                    /\ ListOf(Tokens(out)[j]) # <<>>
                    /\ \A p \in Pieces(ListOf(Tokens(out)[j])) : WfPiece(p)}}

VoteNamesOf(protos, out) ==
  NamesIn(out) \cup UNION {NamesIn(protos[i]) : i \in 1..Len(protos)}

VoteVersionsOf(protos, out) ==
  UNION {VotedVersions(out, n) : n \in NamesIn(out)}
    \cup UNION {UNION {ListedVersions(protos[i], n) : n \in NamesIn(protos[i])}
                  : i \in 1..Len(protos)}

\* A report with its entries outside the grammar removed.
WithoutUnparseable(report) == Join(SelectSeq(Tokens(report), WfEntry), <<" ">>)

-----------------------------------------------------------------------------
\* The claims.

\* C1: protover_string_supports_protocol returns a boolean and never panics:
\* true iff every entry of the list parses and the list has an entry for
\* proto that lists vers, false otherwise.
C1_SupportsReturnsBoolean ==
  op = "protover_string_supports_protocol" =>
    /\ ret.kind = "return"
    /\ ret.val = (/\ \A i \in 1..Len(Tokens(args.list)) : StrictEntry(Tokens(args.list)[i])
                  /\ args.vers \in ListedVersions(args.list, Chars(args.proto)))

\* C2: for a threshold t >= 1 and at least one report, version v is in the
\* output of compute_vote under name P iff at least t (P, v) occurrences are
\* reported, one per parseable entry that lists v.
C2_ThresholdCountsOccurrences ==
  (op = "compute_vote" /\ args.protos # <<>> /\ args.threshold >= 1) =>
    \A name \in VoteNamesOf(args.protos, ret), v \in VoteVersionsOf(args.protos, ret) :
      v \in VotedVersions(ret, name)
        <=> Cardinality(Occurrences(args.protos, name, v)) >= args.threshold

\* C3: for a threshold >= 1, the output of compute_vote lists exactly the
\* protocol versions listed by at least threshold of the input strings, an
\* input string counting once for a protocol version.
C3_ThresholdCountsInputs ==
  (op = "compute_vote" /\ args.threshold >= 1) =>
    Bind(Readings(args.protos), LAMBDA readings :
      \A name \in VoteNamesOf(args.protos, ret), v \in VoteVersionsOf(args.protos, ret) :
        v \in VotedVersions(ret, name)
          <=> Cardinality(Voters(readings, name, v)) >= args.threshold)

\* C4: for a threshold <= 0 and at least one report, the output of
\* compute_vote lists for each name exactly the versions reported in
\* parseable entries for that name.
C4_NonPositiveThresholdAcceptsAll ==
  (op = "compute_vote" /\ args.protos # <<>> /\ args.threshold <= 0) =>
    \A name \in VoteNamesOf(args.protos, ret), v \in VoteVersionsOf(args.protos, ret) :
      v \in VotedVersions(ret, name)
        <=> Occurrences(args.protos, name, v) # {}

\* C5: all_supported returns true and the empty text iff no whitespace-
\* separated entry fails the single-entry check, and otherwise false and the
\* failing entries, whole, in their order, joined by single spaces.
C5_AllSupportedListsFailingEntries ==
  op = "all_supported" =>
    LET failing == SelectSeq(Tokens(args.text),
                             LAMBDA e : ~contains_only_ssupported_protocols(e))
    IN /\ ret[1] = (failing = <<>>)
       /\ Tokens(ret[2]) = failing
       /\ SingleSpaced(ret[2])

\* C5 witness: a text with tabs and repeated spaces of which two entries fail.
C5_Witness ==
  /\ op = "all_supported"
  /\ args.text = Chars("Wombat=9\tCons=1-")
  /\ ret = <<FALSE, Chars("Wombat=9 Cons=1-")>>

\* C6: contains_only_ssupported_protocols returns true iff the entry is
\* Name=versions of the grammar with a known name and every version listed is
\* in the table for that name; false for every entry outside the grammar.
C6_EntryCheckFailsClosed ==
  op = "contains_only_ssupported_protocols" =>
    ret = (/\ StrictEntry(args.entry)
           /\ EntryVersions(args.entry) \subseteq SupportedVersions(NameOf(args.entry)))

\* C7 as stated: for every set of versions, the empty set included,
\* get_versions accepts the output of contract_protocol_list and returns the set.
C7_RoundTripEverySet ==
  op = "round_trip" =>
    /\ ret.parsed.ok
    /\ Range(ret.parsed.val) = args.set
    /\ Len(ret.parsed.val) = Cardinality(args.set)
    /\ \A i \in 1..(Len(ret.parsed.val) - 1) : ret.parsed.val[i] < ret.parsed.val[i + 1]

\* C7 amended: for every non-empty set of versions, get_versions accepts the
\* output of contract_protocol_list and returns the set in ascending order.
C7_RoundTripNonEmptySet ==
  (op = "round_trip" /\ args.set # {}) =>
    /\ ret.parsed.ok
    /\ Range(ret.parsed.val) = args.set
    /\ Len(ret.parsed.val) = Cardinality(args.set)
    /\ \A i \in 1..(Len(ret.parsed.val) - 1) : ret.parsed.val[i] < ret.parsed.val[i + 1]

\* C7 witness: a set with a run and single versions, contracted and parsed back.
C7_Witness ==
  /\ op = "round_trip"
  /\ args.set = {1, 2, 3, 5}
  /\ ret.text = Chars("1-3,5")
  /\ ret.parsed = Ok(<<1, 2, 3, 5>>)

\* C8: on a list of well-formed entries separated by any whitespace,
\* protover_string_supports_protocol answers as on the same entries
\* separated by single spaces.
C8_AnyWhitespaceSeparates ==
  (/\ op = "protover_string_supports_protocol"
   /\ \A i \in 1..Len(Tokens(args.list)) : StrictEntry(Tokens(args.list)[i])) =>
    ret = protover_string_supports_protocol(
            Join(Tokens(args.list), <<" ">>), args.proto, args.vers)

\* C9: the output of compute_vote is canonical for every iteration order of
\* the maps: single spaces between entries, every entry a name with a
\* non-empty version list, names strictly ascending in byte order (so no
\* name twice), and the empty text for no reports.
C9_VoteOutputCanonical ==
  op = "compute_vote" =>
    LET out == Tokens(ret)
    IN /\ SingleSpaced(ret)
       /\ \A i \in 1..Len(out) :
            /\ EqPos(out[i]) > 0
            /\ \A p \in Pieces(ListOf(out[i])) : WfPiece(p)
            /\ VersionsOf(ListOf(out[i])) # {}
       /\ \A i \in 1..(Len(out) - 1) : StrLess(NameOf(out[i]), NameOf(out[i + 1]))
       /\ (args.protos = <<>> => ret = <<>>)

\* C9 witness: two names reported in descending order come out ascending.
C9_Witness ==
  /\ op = "compute_vote"
  /\ args.protos = <<Chars("Link=1-2 Cons=1")>>
  /\ ret = Chars("Cons=1 Link=1-2")

\* C10: compute_vote returns what it returns for the reports with every
\* entry outside the grammar removed.
C10_UnparseableEntriesSkipped ==
  op = "compute_vote" =>
    \A h \in HashOrders :
      ret = compute_vote([i \in 1..Len(args.protos) |-> WithoutUnparseable(args.protos[i])],
                         args.threshold, h)

\* C11: get_versions on a list of well-formed pieces fails with the
\* too-many-versions error iff the list denotes more than
\* MAX_PROTOCOLS_TO_EXPAND distinct versions, and succeeds otherwise,
\* repeated versions counting once.
C11_CapCountsDistinctVersions ==
  (/\ pc = "done" /\ op = "get_versions"
   /\ \A p \in Pieces(args.version_string) : WfPiece(p))
    => IF Cardinality(VersionsOf(args.version_string)) > MAX_PROTOCOLS_TO_EXPAND
       THEN ret = Err("Too many versions to expand")
       ELSE ret.ok

\* C12: the sequence get_versions returns is strictly ascending and has at
\* most MAX_PROTOCOLS_TO_EXPAND members.
C12_VersionSetInvariant ==
  (pc = "done" /\ op = "get_versions" /\ ret.ok)
    => /\ \A i \in 1..(Len(ret.val) - 1) : ret.val[i] < ret.val[i + 1]
       /\ Len(ret.val) <= MAX_PROTOCOLS_TO_EXPAND

\* C13: expand_version_range accepts a text only if it is exactly two
\* decimal integers separated by one '-'.
C13_RangeHasExactlyTwoParts ==
  (pc = "done" /\ op = "expand_version_range" /\ ret.ok) => IsRange(args.range)

\* C14: every entry of the output of compute_vote is Name=versions with a
\* version list that get_versions accepts and that parses back to exactly the
\* versions retained for that name, and every name with a retained version
\* has an entry.
C14_VoteOutputReparses ==
  (pc = "done" /\ op = "compute_vote" /\ args.protos # <<>>)
    => LET protocols == parse_protocols_with_duplicates(args.protos).val
           entries == IF ret = <<>> THEN <<>> ELSE Split(ret, " ")
           retained(n) == meets_threshold(protocols[n], args.threshold)
       IN /\ \A i \in 1..Len(entries) :
               LET parts == SplitN2(entries[i], "=")
               IN /\ Len(parts) = 2
                  /\ parts[1] \in DOMAIN protocols
                  /\ get_versions(parts[2]).ok
                  /\ Range(get_versions(parts[2]).val) = retained(parts[1])
          /\ \A n \in DOMAIN protocols :
               retained(n) # {} =>
                 \E i \in 1..Len(entries) : SplitN2(entries[i], "=")[1] = n

\* Some byte of a C string is not valid UTF-8.
InvalidlyEncoded(ptr) == ~ptr.null /\ \E i \in 1..Len(ptr.bytes) : ptr.bytes[i] = InvalidByte

\* C15: a text that is not valid UTF-8 fails closed at the C boundary:
\* protocol_list_supports_protocol returns 0, protover_all_supported does
\* not return 1, and protover_compute_vote returns a vote string.
C15_InvalidEncodingFailsClosed ==
  /\ (/\ pc = "done" /\ op = "protocol_list_supports_protocol"
      /\ InvalidlyEncoded(args.c_protocol_list))
       => ret = Returned(0)
  /\ (/\ pc = "done" /\ op = "protover_all_supported"
      /\ ~args.missing_out_is_null
      /\ InvalidlyEncoded(args.c_relay_version))
       => (ret.kind = "return" /\ ret.val.status # 1)
  /\ (/\ pc = "done" /\ op = "protover_compute_vote"
      /\ ~args.list.null
      /\ \E i \in 1..args.list.target.num_used :
           InvalidlyEncoded(args.list.target.list[i]))
       => ret.kind = "return"

====
